---- MODULE Spec2Model ----
(***************************************************************************)
(* Model of the federated search aggregator: the SQLite result cache       *)
(* (src/src/cache.rs), the cache reconciler fetch_or_cache_result, the     *)
(* orchestrator search_engine_results and merge_results (src/src/lib.rs).  *)
(*                                                                         *)
(* Every SQL statement is one atomic step.  The statements of              *)
(* upsert_query_with_results run on the pool, not on the transaction `tx`  *)
(* it opens, so they commit one by one and other tasks interleave between  *)
(* them.                                                                   *)
(***************************************************************************)
EXTENDS Integers, Sequences, FiniteSets, TLC

VARIABLES
    db,      \* the SQLite database behind the pool
    task,    \* the reconciliation tasks: locals and position of each
    call,    \* the one call of search_engine_results
    flat,    \* its local `flat`: the rows of the successful tasks, as joined
    hist,    \* the calls of upsert_query_with_results made by the sequential caller
    ncalls   \* number of calls made so far by the sequential caller

vars == <<db, task, call, flat, hist, ncalls>>

(***************************************************************************)
(* Bounds and value sets.                                                  *)
(***************************************************************************)
MaxPageLen == 2
MaxTasks == 2
MaxCalls == 2
MaxStart == 1
MaxCount == 2
MaxLongPageLen == 4
MaxFlatLen == 3
MaxEngineCalls == 6

\* urls are strings, modelled as sequences of character codes
Urls == {<<1>>, <<1, 2>>, <<2>>}
Titles == {"T", "U"}
Descriptions == {"D", "E"}
EngineNames == {"Brave", "DuckDuckGo"}
QueryTexts == {"rust"}
Times == {1}

ResultRow == [url : Urls, title : Titles, description : Descriptions]

RECURSIVE SeqsUpTo(_, _)
SeqsUpTo(S, n) ==
    IF n = 0 THEN {<<>>}
    ELSE LET shorter == SeqsUpTo(S, n - 1)
         IN  shorter \cup {Append(s, x) : s \in {z \in shorter : Len(z) = n - 1}, x \in S}

\* the pages a caller may upsert
Pages == SeqsUpTo(ResultRow, MaxPageLen)

\* the first pages the engine adapters may return
AdapterUrls == {<<1>>, <<1, 2>>}
AdapterRows ==
    {r \in ResultRow : r.url \in AdapterUrls /\ r.title = "T" /\ r.description = "D"}
AdapterPages == SeqsUpTo(AdapterRows, MaxPageLen)

Min(a, b) == IF a < b THEN a ELSE b

(***************************************************************************)
(* The store.  A table with INTEGER PRIMARY KEY and no deletes is a        *)
(* sequence of rows: the rowid of a row is its index.  Id 0 stands for     *)
(* "no row" (None).                                                        *)
(***************************************************************************)
create_search_cache ==
    [engines |-> <<>>, queries |-> <<>>, results |-> <<>>, query_results |-> {},
     images |-> <<>>, query_images |-> {}]

\* SELECT id FROM engines WHERE name = ?
select_engine_id(d, engine) ==
    IF \E i \in 1..Len(d.engines) : d.engines[i] = engine
    THEN CHOOSE i \in 1..Len(d.engines) : d.engines[i] = engine
    ELSE 0

\* INSERT INTO engines (name) VALUES (?): name is UNIQUE, a second row fails
insert_engine_ok(d, engine) == select_engine_id(d, engine) = 0

insert_engine_row(d, engine) ==
    [db |-> [d EXCEPT !.engines = Append(@, engine)], id |-> Len(d.engines) + 1]

\* an INSERT without the SELECT before it and without UNIQUE(name)
get_engine_id_always_inserts(d, engine) == insert_engine_row(d, engine)

get_engine_id(d, engine) ==
    IF select_engine_id(d, engine) # 0
    THEN [db |-> d, id |-> select_engine_id(d, engine)]
    ELSE insert_engine_row(d, engine)

\* SELECT ... FROM queries WHERE query = ? AND engine_id = ?  (fetch_optional:
\* the first row of the rowid scan)
QueryMatches(d, query, engine_id) ==
    {i \in 1..Len(d.queries) :
        d.queries[i].query = query /\ d.queries[i].engine_id = engine_id}

get_query(d, query, engine_id) ==
    IF QueryMatches(d, query, engine_id) = {} THEN 0
    ELSE CHOOSE i \in QueryMatches(d, query, engine_id) :
            \A j \in QueryMatches(d, query, engine_id) : i <= j

\* INSERT INTO queries (query, engine_id, fetched_at): no uniqueness constraint
insert_query(d, query, engine_id, fetched_at) ==
    [db |-> [d EXCEPT !.queries =
                Append(@, [query |-> query, engine_id |-> engine_id,
                           fetched_at |-> fetched_at])],
     id |-> Len(d.queries) + 1]

\* SELECT COUNT(*) FROM query_results WHERE query_id = ?
LinksOf(d, query_id) == {l \in d.query_results : l.query_id = query_id}

count_query_results(d, query_id) == Cardinality(LinksOf(d, query_id))

\* a results table without UNIQUE(url): every insert adds a row
insert_result_no_unique(d, entry) ==
    [db |-> [d EXCEPT !.results = Append(@, entry)], id |-> Len(d.results) + 1]

\* INSERT OR REPLACE semantics: the last insert of a url sets title and
\* description
insert_result_last_wins(d, entry) ==
    IF \E i \in 1..Len(d.results) : d.results[i].url = entry.url
    THEN LET i == CHOOSE j \in 1..Len(d.results) : d.results[j].url = entry.url
         IN  [db |-> [d EXCEPT !.results[i] = entry], id |-> i]
    ELSE [db |-> [d EXCEPT !.results = Append(@, entry)],
          id |-> Len(d.results) + 1]

\* INSERT OR IGNORE INTO results; on a url that exists, SELECT its id
insert_result(d, entry) ==
    IF \E i \in 1..Len(d.results) : d.results[i].url = entry.url
    THEN [db |-> d,
          id |-> CHOOSE i \in 1..Len(d.results) : d.results[i].url = entry.url]
    ELSE [db |-> [d EXCEPT !.results = Append(@, entry)],
          id |-> Len(d.results) + 1]

\* a link table without the primary key: every insert adds a row
insert_query_result_no_key(d, query_id, result_id, result_index) ==
    [d EXCEPT !.query_results = @ \cup
        {[query_id |-> query_id, result_id |-> result_id,
          result_index |-> result_index]}]

\* a link table keyed by result_id alone, written with INSERT OR REPLACE: a
\* result is linked to the query that linked it last
insert_query_result_one_query_per_result(d, query_id, result_id, result_index) ==
    [d EXCEPT !.query_results =
        {l \in @ : l.result_id # result_id} \cup
        {[query_id |-> query_id, result_id |-> result_id,
          result_index |-> result_index]}]

\* INSERT OR IGNORE INTO query_results; PRIMARY KEY (query_id, result_id)
insert_query_result(d, query_id, result_id, result_index) ==
    IF \E l \in d.query_results : l.query_id = query_id /\ l.result_id = result_id
    THEN d
    ELSE [d EXCEPT !.query_results = @ \cup
            {[query_id |-> query_id, result_id |-> result_id,
              result_index |-> result_index]}]

\* positions that count down from current_count
link_index_descending(current_count, i) == current_count - (i - 1)

\* positions that restart at 0 with every page
link_index_from_zero(current_count, i) == i - 1

\* the position the i-th entry (1-based here, 0-based in the source) is given
link_index(current_count, i) == current_count + (i - 1)

\* SELECT ... INNER JOIN ... ORDER BY result_index ASC.  Rows with equal
\* result_index come in an order SQL leaves open: every such order is possible.
LinkOrders(links) ==
    {s \in [1..Cardinality(links) -> links] :
        /\ \A i, j \in 1..Cardinality(links) : i # j => s[i] # s[j]
        /\ \A i, j \in 1..Cardinality(links) :
              i < j => s[i].result_index <= s[j].result_index}

get_results_for_query(d, query_id) ==
    {[i \in 1..Len(s) |-> d.results[s[i].result_id]] : s \in LinkOrders(LinksOf(d, query_id))}

\* the for loop of upsert_query_with_results, from entry i on
RECURSIVE upsert_loop(_, _, _, _, _)
upsert_loop(d, query_id, current_count, entries, i) ==
    IF i > Len(entries) THEN d
    ELSE LET r == insert_result(d, entries[i])
         IN  upsert_loop(insert_query_result(r.db, query_id, r.id,
                                             link_index(current_count, i)),
                         query_id, current_count, entries, i + 1)

\* one whole call of upsert_query_with_results with no other task in between
upsert_query_with_results(d, engine, query, entries, fetched_at) ==
    LET e == get_engine_id(d, engine)
        q == get_query(e.db, query, e.id)
        n == IF q # 0 THEN [db |-> e.db, id |-> q]
             ELSE insert_query(e.db, query, e.id, fetched_at)
        current_count == count_query_results(n.db, n.id)
    IN  [db |-> upsert_loop(n.db, n.id, current_count, entries, 1), id |-> n.id]


(***************************************************************************)
(* merge_results.  String order is lexicographic order of the character    *)
(* codes; a BTreeMap keeps its keys in that order.                         *)
(***************************************************************************)
UrlLess(a, b) ==
    \E k \in 1..(Min(Len(a), Len(b)) + 1) :
        /\ \A j \in 1..(k - 1) : a[j] = b[j]
        /\ \/ k > Len(a) /\ k <= Len(b)
           \/ k <= Len(a) /\ k <= Len(b) /\ a[k] < b[k]

\* a repeat that overwrites title and description with its own non-empty ones
and_modify_overwrite(existing, row) ==
    [existing EXCEPT
        !.engines = @ \o row.engines,
        !.description = IF row.description # "" THEN row.description ELSE @,
        !.title = IF row.title # "" THEN row.title ELSE @]

\* and_modify on a key that is present
and_modify(existing, row) ==
    [existing EXCEPT
        !.engines = @ \o row.engines,
        !.description = IF @ = "" THEN row.description ELSE @,
        !.title = IF @ = "" THEN row.title ELSE @]

\* the for loop of merge_results: map is the BTreeMap, a function on its keys
RECURSIVE merge_fold(_, _, _)
merge_fold(map, rows, i) ==
    IF i > Len(rows) THEN map
    ELSE LET row == rows[i]
             key == row.url
         IN  merge_fold(
                IF key \in DOMAIN map
                THEN [map EXCEPT ![key] = and_modify(@, row)]
                ELSE [k \in (DOMAIN map) \cup {key} |->
                        IF k = key THEN row ELSE map[k]],
                rows, i + 1)

\* the values with shorter keys first, keys of one length in ascending order
RECURSIVE into_values_shortest_first(_, _)
into_values_shortest_first(map, keys) ==
    IF keys = {} THEN <<>>
    ELSE LET least == CHOOSE k \in keys : \A o \in keys \ {k} :
                          Len(k) < Len(o) \/ (Len(k) = Len(o) /\ UrlLess(k, o))
         IN  <<map[least]>> \o into_values_shortest_first(map, keys \ {least})

\* into_values: the values in ascending key order
RECURSIVE into_values(_, _)
into_values(map, keys) ==
    IF keys = {} THEN <<>>
    ELSE LET least == CHOOSE k \in keys : \A o \in keys \ {k} : UrlLess(k, o)
         IN  <<map[least]>> \o into_values(map, keys \ {least})

merge_results(rows) ==
    LET map == merge_fold(<<>>, rows, 1)
    IN  into_values(map, DOMAIN map)

(***************************************************************************)
(* fetch_or_cache_result, one task per call.  pc names the statement the   *)
(* task runs next; phase tells which caller of get_engine_id / get_query   *)
(* it is in.  pool.begin() and tx.commit() touch no table (the statements  *)
(* in between do not run on tx): they are folded into the neighbouring     *)
(* steps.                                                                  *)
(***************************************************************************)
\* fetches, decided, linked_before and added record what the call did (how
\* often it called the adapter, whether it got to line 187, the urls linked to
\* its (engine, query) when it last looked, the link rows its own inserts
\* created); the code does not read them
IdleTask ==
    [pc |-> "idle", phase |-> "none", status |-> "none",
     engine |-> "", query |-> "", start |-> 0, count |-> 0,
     engine_id |-> 0, query_id |-> 0, cached_rows |-> <<>>, decided |-> FALSE,
     search_results |-> <<>>, engine_results |-> <<>>,
     current_count |-> 0, i |-> 0, result_id |-> 0,
     fetches |-> 0, linked_before |-> {}, added |-> {}]

NewTask(engine, query, start, count) ==
    [IdleTask EXCEPT !.pc = "select_engine", !.phase = "reconcile",
                     !.engine = engine, !.query = query,
                     !.start = start, !.count = count]

\* the task is over: Ok(rows) with status "ok", Err(..) otherwise
Done(tk, status, rows) ==
    [tk EXCEPT !.pc = "done", !.phase = "none", !.status = status,
               !.search_results = rows,
               !.engine_id = 0, !.query_id = 0, !.current_count = 0,
               !.i = 0, !.result_id = 0]

Active(tk) == tk.pc \notin {"idle", "done"}

\* a SearchResult built from a cached or a fetched row
CachedResult(cr, engine) ==
    [url |-> cr.url, title |-> cr.title, description |-> cr.description,
     engines |-> <<engine>>, cached |-> TRUE]

\* a fetched row marked as served from the cache
FreshResult_marked_cached(cr, engine) ==
    [url |-> cr.url, title |-> cr.title, description |-> cr.description,
     engines |-> <<engine>>, cached |-> TRUE]

FreshResult(cr, engine) ==
    [url |-> cr.url, title |-> cr.title, description |-> cr.description,
     engines |-> <<engine>>, cached |-> FALSE]

\* a lower bound that is not clamped to the cached list
slice_start_unclamped(start, cached_count) == start

slice_start(start, cached_count) == Min(start, cached_count)

slice_end(cached_count, needed_end) == Min(cached_count, needed_end)

\* a fetch also when the cache covers the window exactly
needs_fetch_when_covered(cached_count, needed_end) == cached_count <= needed_end

\* a reconciler that refreshes from the adapter on every call
needs_fetch_always(cached_count, needed_end) == TRUE

needs_fetch(cached_count, needed_end) == cached_count < needed_end

\* the urls linked to any query row of (engine, query)
LinkedUrls(d, engine, query) ==
    {d.results[l.result_id].url :
        l \in {m \in d.query_results :
                m.query_id \in QueryMatches(d, query, select_engine_id(d, engine))}}

\* lines 187-203: the cache-hit slice, then whether a live fetch follows.
\* &cached_rows[start..end] panics when start > end.
Decide(tk, rows, linked) ==
    LET cached_count == Len(rows)
        needed_end == tk.start + tk.count
        start == slice_start(tk.start, cached_count)
        end == slice_end(cached_count, needed_end)
        seen == [tk EXCEPT !.cached_rows = rows, !.decided = TRUE, !.query_id = 0,
                           !.linked_before = linked]
    IN  IF start > end THEN Done(seen, "panic", <<>>)
        ELSE LET hits == [k \in 1..(end - start) |->
                            CachedResult(rows[start + k], tk.engine)]
             IN  IF needs_fetch(cached_count, needed_end)
                 THEN [seen EXCEPT !.search_results = hits, !.pc = "search_results"]
                 ELSE Done(seen, "ok", hits)

\* one step of task t: its new locals, the new database; join_all sees the
\* tasks in the order they finish
Step(t, tk, d) ==
    /\ task' = [task EXCEPT ![t] = tk]
    /\ db' = d
    /\ call' = IF tk.pc = "done" /\ call.pc = "joining"
               THEN [call EXCEPT !.joined = Append(@, t)]
               ELSE call
    /\ UNCHANGED <<flat, hist, ncalls>>

GetEngineIdSelect(t) ==
    /\ task[t].pc = "select_engine"
    /\ LET id == select_engine_id(db, task[t].engine)
       IN  Step(t, IF id # 0
                   THEN [task[t] EXCEPT !.engine_id = id, !.pc = "get_query"]
                   ELSE [task[t] EXCEPT !.pc = "insert_engine"], db)

GetEngineIdInsert(t) ==
    /\ task[t].pc = "insert_engine"
    /\ IF insert_engine_ok(db, task[t].engine)
       THEN LET r == insert_engine_row(db, task[t].engine)
            IN  Step(t, [task[t] EXCEPT !.engine_id = r.id, !.pc = "get_query"], r.db)
       ELSE Step(t, Done(task[t], "sqlx", <<>>), db)

GetQuery(t) ==
    /\ task[t].pc = "get_query"
    /\ LET q == get_query(db, task[t].query, task[t].engine_id)
       IN  IF task[t].phase = "reconcile"
           THEN Step(t, IF q = 0
                        THEN Decide(task[t], <<>>,
                                    LinkedUrls(db, task[t].engine, task[t].query))
                        ELSE [task[t] EXCEPT !.query_id = q, !.pc = "get_results"], db)
           ELSE Step(t, IF q = 0 THEN [task[t] EXCEPT !.pc = "insert_query"]
                        ELSE [task[t] EXCEPT !.query_id = q, !.pc = "count"], db)

GetResults(t) ==
    /\ task[t].pc = "get_results"
    /\ \E rows \in get_results_for_query(db, task[t].query_id) :
          Step(t, Decide(task[t], rows,
                         LinkedUrls(db, task[t].engine, task[t].query)), db)

\* engine.search_results(&query): the adapter answers with its first page
SearchResultsOk(t) ==
    /\ task[t].pc = "search_results"
    /\ \E page \in AdapterPages :
          Step(t, [task[t] EXCEPT !.engine_results = page, !.fetches = @ + 1,
                      !.linked_before = LinkedUrls(db, task[t].engine, task[t].query),
                      !.pc = "select_engine", !.phase = "upsert", !.engine_id = 0], db)

\* a reconciler that creates the query row before it calls the adapter
SearchResultsErr_query_row_first(t) ==
    /\ task[t].pc = "search_results"
    /\ Step(t, Done([task[t] EXCEPT !.fetches = @ + 1], "engine", <<>>),
            insert_query(db, task[t].query,
                         select_engine_id(db, task[t].engine), 1).db)

SearchResultsErr(t) ==
    /\ task[t].pc = "search_results"
    /\ Step(t, Done([task[t] EXCEPT !.fetches = @ + 1,
                       !.linked_before = LinkedUrls(db, task[t].engine, task[t].query)],
                    "engine", <<>>), db)

\* lines 220-231: the fresh page follows the cache hits
Finished(tk) ==
    Done(tk, "ok",
         tk.search_results \o
            [k \in 1..Len(tk.engine_results) |->
                FreshResult(tk.engine_results[k], tk.engine)])

InsertQuery(t) ==
    /\ task[t].pc = "insert_query"
    /\ \E fetched_at \in Times :
          LET r == insert_query(db, task[t].query, task[t].engine_id, fetched_at)
          IN  Step(t, [task[t] EXCEPT !.query_id = r.id, !.pc = "count"], r.db)

Count(t) ==
    /\ task[t].pc = "count"
    /\ LET n == count_query_results(db, task[t].query_id)
       IN  Step(t, IF task[t].engine_results = <<>> THEN Finished(task[t])
                   ELSE [task[t] EXCEPT !.current_count = n, !.i = 1,
                                        !.pc = "insert_result"], db)

\* insert_result: the INSERT OR IGNORE and, for a url already stored, the
\* SELECT of its id (rows of results never change, so the two read as one)
InsertResult(t) ==
    /\ task[t].pc = "insert_result"
    /\ LET r == insert_result(db, task[t].engine_results[task[t].i])
       IN  Step(t, [task[t] EXCEPT !.result_id = r.id, !.pc = "insert_query_result"], r.db)

InsertQueryResult(t) ==
    /\ task[t].pc = "insert_query_result"
    /\ LET d == insert_query_result(db, task[t].query_id, task[t].result_id,
                                    link_index(task[t].current_count, task[t].i))
           tk == [task[t] EXCEPT !.added = @ \cup (d.query_results \ db.query_results)]
       IN  Step(t, IF tk.i = Len(tk.engine_results) THEN Finished(tk)
                   ELSE [tk EXCEPT !.i = @ + 1, !.result_id = 0,
                                   !.pc = "insert_result"], d)

\* any statement may fail with an I/O error: `?` returns FetchError::Sqlx
StorePcs == {"select_engine", "insert_engine", "get_query", "get_results",
             "insert_query", "count", "insert_result", "insert_query_result"}

StoreError(t) ==
    /\ task[t].pc \in StorePcs
    /\ Step(t, Done(task[t], "sqlx", <<>>), db)

TaskStep(t) ==
    \/ GetEngineIdSelect(t)
    \/ GetEngineIdInsert(t)
    \/ GetQuery(t)
    \/ GetResults(t)
    \/ SearchResultsOk(t)
    \/ SearchResultsErr(t)
    \/ InsertQuery(t)
    \/ Count(t)
    \/ InsertResult(t)
    \/ InsertQueryResult(t)
    \/ StoreError(t)

(***************************************************************************)
(* search_engine_results: one task per requested engine, each under        *)
(* timeout(ENGINE_TIMEOUT), and join_all under a second timeout of the     *)
(* same length.  Time is abstract: a timeout may fire at any suspension    *)
(* point of what it wraps.                                                 *)
(***************************************************************************)
WindowStart == 0
WindowCount == 10

NoCall ==
    [pc |-> "idle", n |-> 0, joined |-> <<>>, outcome |-> "none", results |-> <<>>]

Init ==
    /\ db = create_search_cache
    /\ task = [t \in 1..MaxTasks |-> IdleTask]
    /\ call = NoCall
    /\ flat = <<>>
    /\ hist = <<>>
    /\ ncalls = 0

\* lines 84-101: spawn the tasks
Search(query, engines) ==
    /\ call.pc = "idle"
    /\ call' = [call EXCEPT !.pc = "joining", !.n = Len(engines)]
    /\ task' = [t \in 1..MaxTasks |->
                  IF t <= Len(engines)
                  THEN NewTask(engines[t], query, WindowStart, WindowCount)
                  ELSE IdleTask]
    /\ UNCHANGED <<db, flat, hist, ncalls>>

\* the per-task timeout of line 100 fires: the task's result is Err(Elapsed)
Elapsed(t) ==
    /\ call.pc = "joining"
    /\ Active(task[t])
    /\ Step(t, Done(task[t], "elapsed", <<>>), db)

AllFinished == \A t \in 1..call.n : task[t].pc = "done"

\* lines 112-125, from the k-th joined result on (flat_k is `flat` at that
\* point): Ok(rows) sets any_success and unwraps rows, which panics when rows is an Err of the task itself
RECURSIVE collect(_, _, _, _)
collect(per_engine, k, flat_k, any_success) ==
    IF k > Len(per_engine)
    THEN [panic |-> FALSE, flat |-> flat_k, any_success |-> any_success]
    ELSE IF per_engine[k].status = "elapsed"
         THEN collect(per_engine, k + 1, flat_k, any_success)
         ELSE IF per_engine[k].status = "ok"
              THEN collect(per_engine, k + 1,
                           flat_k \o per_engine[k].search_results, TRUE)
              ELSE [panic |-> TRUE, flat |-> flat_k, any_success |-> TRUE]

\* a task's own timeout that fails the whole call
join_result_elapsed_fatal(per_engine) ==
    LET c == collect(per_engine, 1, <<>>, FALSE)
    IN  IF \E k \in 1..Len(per_engine) : per_engine[k].status = "elapsed"
        THEN [outcome |-> "Timeouts", results |-> <<>>]
        ELSE IF c.panic THEN [outcome |-> "panic", results |-> <<>>]
        ELSE IF ~c.any_success
             THEN [outcome |-> "AllEnginesFailed", results |-> <<>>]
             ELSE [outcome |-> "Ok", results |-> merge_results(c.flat)]

\* a call that succeeds whenever no task failed, also with no task at all
join_result_ok_without_success(per_engine) ==
    LET c == collect(per_engine, 1, <<>>, FALSE)
    IN  IF c.panic THEN [outcome |-> "panic", results |-> <<>>]
        ELSE [outcome |-> "Ok", results |-> merge_results(c.flat)]

\* lines 112-131: what the call returns once join_all has every result
join_result(per_engine) ==
    LET c == collect(per_engine, 1, <<>>, FALSE)
    IN  IF c.panic THEN [outcome |-> "panic", results |-> <<>>]
        ELSE IF ~c.any_success
             THEN [outcome |-> "AllEnginesFailed", results |-> <<>>]
             ELSE [outcome |-> "Ok", results |-> merge_results(c.flat)]

\* a deadline that hands back what has finished so far
deadline_result_partial(per_engine) ==
    join_result(per_engine)

\* lines 105-110: what the call returns when the outer timeout fires first
deadline_result(per_engine) ==
    [outcome |-> "Timeouts", results |-> <<>>]

PerEngine == [k \in 1..Len(call.joined) |-> task[call.joined[k]]]

Return(r) ==
    call' = [call EXCEPT !.pc = "returned", !.outcome = r.outcome,
                         !.results = r.results]

\* the outer timeout of line 103 fires while join_all is pending; dropping
\* the JoinSet aborts the tasks still running
Deadline ==
    /\ call.pc = "joining"
    /\ ~AllFinished
    /\ Return(deadline_result(PerEngine))
    /\ task' = [t \in 1..MaxTasks |->
                  IF Active(task[t]) THEN Done(task[t], "aborted", <<>>) ELSE task[t]]
    /\ UNCHANGED <<db, flat, hist, ncalls>>

Join ==
    /\ call.pc = "joining"
    /\ AllFinished
    /\ Return(join_result(PerEngine))
    /\ flat' = collect(PerEngine, 1, <<>>, FALSE).flat
    /\ UNCHANGED <<db, task, hist, ncalls>>

Next ==
    \/ \E query \in QueryTexts, engines \in SeqsUpTo(EngineNames, MaxTasks) :
          Search(query, engines)
    \/ \E t \in 1..MaxTasks : TaskStep(t)
    \/ \E t \in 1..MaxTasks : Elapsed(t)
    \/ Deadline
    \/ Join

Spec == Init /\ [][Next]_vars

\* The runtime's part of the scheduling: the timer of the outer timeout fires
\* when join_all is still pending at its deadline, and join_all completes
\* once every task has finished.  Nothing is assumed of the tasks: an
\* adapter or a statement may stay pending for ever.
SpecFair == Spec /\ WF_vars(Deadline) /\ WF_vars(Join)

(***************************************************************************)
(* The image path: the tables images and query_images, the reconciler      *)
(* fetch_or_cache_image, merge_images and the tail of search_engine_images.*)
(* An ImagesRow has a url and a title.  Each operator is one whole call    *)
(* with no other task in between.                                          *)
(***************************************************************************)
\* INSERT OR IGNORE INTO images; on a url that exists, SELECT its id
insert_image(d, entry) ==
    IF \E i \in 1..Len(d.images) : d.images[i].url = entry.url
    THEN [db |-> d,
          id |-> CHOOSE i \in 1..Len(d.images) : d.images[i].url = entry.url]
    ELSE [db |-> [d EXCEPT !.images = Append(@, entry)],
          id |-> Len(d.images) + 1]

\* INSERT OR IGNORE INTO query_images; PRIMARY KEY (query_id, image_id)
insert_query_image(d, query_id, image_id, image_index) ==
    IF \E l \in d.query_images : l.query_id = query_id /\ l.image_id = image_id
    THEN d
    ELSE [d EXCEPT !.query_images = @ \cup
            {[query_id |-> query_id, image_id |-> image_id,
              image_index |-> image_index]}]

ImageLinksOf(d, query_id) == {l \in d.query_images : l.query_id = query_id}

\* SELECT ... INNER JOIN ... ORDER BY image_index ASC, equal positions in any
\* order
ImageLinkOrders(links) ==
    {s \in [1..Cardinality(links) -> links] :
        /\ \A i, j \in 1..Cardinality(links) : i # j => s[i] # s[j]
        /\ \A i, j \in 1..Cardinality(links) :
              i < j => s[i].image_index <= s[j].image_index}

get_images_for_query(d, query_id) ==
    {[i \in 1..Len(s) |-> d.images[s[i].image_id]] :
        s \in ImageLinkOrders(ImageLinksOf(d, query_id))}

\* the for loop of upsert_query_with_images, from entry i on
RECURSIVE upsert_images_loop(_, _, _, _, _)
upsert_images_loop(d, query_id, current_count, entries, i) ==
    IF i > Len(entries) THEN d
    ELSE LET r == insert_image(d, entries[i])
         IN  upsert_images_loop(insert_query_image(r.db, query_id, r.id,
                                                   current_count + (i - 1)),
                                query_id, current_count, entries, i + 1)

upsert_query_with_images(d, engine, query, entries, fetched_at) ==
    LET e == get_engine_id(d, engine)
        q == get_query(e.db, query, e.id)
        n == IF q # 0 THEN [db |-> e.db, id |-> q]
             ELSE insert_query(e.db, query, e.id, fetched_at)
        current_count == Cardinality(ImageLinksOf(n.db, n.id))
    IN  [db |-> upsert_images_loop(n.db, n.id, current_count, entries, 1), id |-> n.id]

\* every image marked as served from the cache
ImageResult_always_cached(cr, engine, cached) ==
    [url |-> cr.url, title |-> cr.title, engines |-> <<engine>>, cached |-> TRUE]

\* an ImageResult built from a cached or a fetched row
ImageResult(cr, engine, cached) ==
    [url |-> cr.url, title |-> cr.title, engines |-> <<engine>>, cached |-> cached]

\* fetch_or_cache_image as one call.  pick is the list get_images_for_query
\* returned (used when the query row exists); answer is what the adapter
\* returns if it is called: [ok |-> TRUE, page |-> ..] or [ok |-> FALSE, ..]
fetch_or_cache_image(d, engine, query, start, count, pick, answer, fetched_at) ==
    LET e == get_engine_id(d, engine)
        q == get_query(e.db, query, e.id)
        cached_rows == IF q # 0 THEN pick ELSE <<>>
        cached_count == Len(cached_rows)
        needed_end == start + count
        lo == Min(start, cached_count)
        hi == Min(cached_count, needed_end)
        hits == [k \in 1..(hi - lo) |-> ImageResult(cached_rows[lo + k], engine, TRUE)]
    IN  IF lo > hi THEN [db |-> e.db, status |-> "panic", rows |-> <<>>]
        ELSE IF cached_count < needed_end
        THEN IF ~answer.ok THEN [db |-> e.db, status |-> "engine", rows |-> <<>>]
             ELSE [db |-> upsert_query_with_images(e.db, engine, query,
                                                   answer.page, fetched_at).db,
                   status |-> "ok",
                   rows |-> hits \o [k \in 1..Len(answer.page) |->
                                        ImageResult(answer.page[k], engine, FALSE)]]
        ELSE [db |-> e.db, status |-> "ok", rows |-> hits]

\* fetch_or_cache_result as one call, with the same inputs
fetch_or_cache_result(d, engine, query, start, count, pick, answer, fetched_at) ==
    LET e == get_engine_id(d, engine)
        q == get_query(e.db, query, e.id)
        cached_rows == IF q # 0 THEN pick ELSE <<>>
        cached_count == Len(cached_rows)
        needed_end == start + count
        lo == slice_start(start, cached_count)
        hi == slice_end(cached_count, needed_end)
        hits == [k \in 1..(hi - lo) |-> CachedResult(cached_rows[lo + k], engine)]
    IN  IF lo > hi THEN [db |-> e.db, status |-> "panic", rows |-> <<>>]
        ELSE IF needs_fetch(cached_count, needed_end)
        THEN IF ~answer.ok THEN [db |-> e.db, status |-> "engine", rows |-> <<>>]
             ELSE [db |-> upsert_query_with_results(e.db, engine, query,
                                                    answer.page, fetched_at).db,
                   status |-> "ok",
                   rows |-> hits \o [k \in 1..Len(answer.page) |->
                                        FreshResult(answer.page[k], engine)]]
        ELSE [db |-> e.db, status |-> "ok", rows |-> hits]

\* and_modify of merge_images on a key that is present
and_modify_image(existing, row) ==
    [existing EXCEPT
        !.engines = @ \o row.engines,
        !.title = IF @ = "" THEN row.title ELSE @]

RECURSIVE merge_images_fold(_, _, _)
merge_images_fold(map, rows, i) ==
    IF i > Len(rows) THEN map
    ELSE LET row == rows[i]
             key == row.url
         IN  merge_images_fold(
                IF key \in DOMAIN map
                THEN [map EXCEPT ![key] = and_modify_image(@, row)]
                ELSE [k \in (DOMAIN map) \cup {key} |->
                        IF k = key THEN row ELSE map[k]],
                rows, i + 1)

merge_images(rows) ==
    LET map == merge_images_fold(<<>>, rows, 1)
    IN  into_values(map, DOMAIN map)

\* lines 270-283 of search_engine_images, from the k-th joined result on
RECURSIVE collect_images(_, _, _, _)
collect_images(per_engine, k, flat_k, any_success) ==
    IF k > Len(per_engine)
    THEN [panic |-> FALSE, flat |-> flat_k, any_success |-> any_success]
    ELSE IF per_engine[k].status = "elapsed"
         THEN collect_images(per_engine, k + 1, flat_k, any_success)
         ELSE IF per_engine[k].status = "ok"
              THEN collect_images(per_engine, k + 1,
                                  flat_k \o per_engine[k].search_images, TRUE)
              ELSE [panic |-> TRUE, flat |-> flat_k, any_success |-> TRUE]

\* lines 270-289: what search_engine_images returns once join_all has every
\* result
join_images_result(per_engine) ==
    LET c == collect_images(per_engine, 1, <<>>, FALSE)
    IN  IF c.panic THEN [outcome |-> "panic", results |-> <<>>]
        ELSE IF ~c.any_success
             THEN [outcome |-> "AllEnginesFailed", results |-> <<>>]
             ELSE [outcome |-> "Ok", results |-> merge_images(c.flat)]

\* lines 263-268: what it returns when the outer timeout fires first
deadline_images_result(per_engine) ==
    [outcome |-> "Timeouts", results |-> <<>>]

(***************************************************************************)
(* The result path and the image path side by side.  One sequential caller *)
(* upserts pages, reconciles windows and sees tasks time out; db is the    *)
(* store of the result path and hist the operations with what the result   *)
(* path returned.  The image path is run over the same operations, with    *)
(* the description dropped from every row, from an empty store.           *)
(***************************************************************************)
Answers ==
    {[ok |-> FALSE, page |-> <<>>]} \cup {[ok |-> TRUE, page |-> p] : p \in AdapterPages}

\* what get_results_for_query can return to a reconciliation of the pair
CachedLists(d, engine, query) ==
    LET q == get_query(d, query, select_engine_id(d, engine))
    IN  IF q = 0 THEN {<<>>} ELSE get_results_for_query(d, q)

UpsertOp(engine, query, entries, fetched_at) ==
    LET r == upsert_query_with_results(db, engine, query, entries, fetched_at)
    IN  /\ ncalls < MaxCalls
        /\ \A t \in 1..MaxTasks : ~Active(task[t])
        /\ db' = r.db
        /\ ncalls' = ncalls + 1
        /\ hist' = Append(hist,
                      [op |-> "upsert", engine |-> engine, query |-> query,
                       entries |-> entries, fetched_at |-> fetched_at,
                       id |-> r.id, status |-> "ok", rows |-> <<>>])
        /\ UNCHANGED <<task, call, flat>>

ReconcileOp(engine, query, start, count, answer, fetched_at) ==
    /\ ncalls < MaxCalls
    /\ \A t \in 1..MaxTasks : ~Active(task[t])
    /\ \E pick \in CachedLists(db, engine, query) :
          LET r == fetch_or_cache_result(db, engine, query, start, count,
                                         pick, answer, fetched_at)
          IN  /\ db' = r.db
              /\ hist' = Append(hist,
                            [op |-> "reconcile", engine |-> engine, query |-> query,
                             start |-> start, count |-> count, pick |-> pick,
                             answer |-> answer, fetched_at |-> fetched_at,
                             status |-> r.status, rows |-> r.rows])
    /\ ncalls' = ncalls + 1
    /\ UNCHANGED <<task, call, flat>>

\* a task whose own timeout fired before its first statement
ElapsedOp(engine, query) ==
    /\ ncalls < MaxCalls
    /\ \A t \in 1..MaxTasks : ~Active(task[t])
    /\ ncalls' = ncalls + 1
    /\ hist' = Append(hist, [op |-> "elapsed", engine |-> engine, query |-> query,
                             status |-> "elapsed", rows |-> <<>>])
    /\ UNCHANGED <<db, task, call, flat>>

NextImages ==
    \/ \E engine \in EngineNames, query \in QueryTexts, entries \in Pages,
          fetched_at \in Times : UpsertOp(engine, query, entries, fetched_at)
    \/ \E engine \in EngineNames, query \in QueryTexts, start \in 0..MaxStart,
          count \in 0..MaxCount, answer \in Answers, fetched_at \in Times :
          ReconcileOp(engine, query, start, count, answer, fetched_at)
    \/ \E engine \in EngineNames, query \in QueryTexts : ElapsedOp(engine, query)

SpecImages == Init /\ [][NextImages]_vars

(***************************************************************************)
(* A reconciliation that follows a call which returned Timeouts: the tasks *)
(* of the call are over (finished or aborted), one direct call of          *)
(* fetch_or_cache_result with the window of search_engine_results runs     *)
(* alone.  hist keeps the tables as the timed-out call left them.          *)
(***************************************************************************)
LaterReconcile(engine, query) ==
    /\ call.pc = "returned"
    /\ call.outcome = "Timeouts"
    /\ ncalls = 0
    /\ ncalls' = 1
    /\ task' = [task EXCEPT ![1] = NewTask(engine, query, WindowStart, WindowCount)]
    /\ hist' = <<db>>
    /\ UNCHANGED <<db, call, flat>>

NextAfterTimeout ==
    \/ Next
    \/ \E engine \in EngineNames, query \in QueryTexts : LaterReconcile(engine, query)

SpecAfterTimeout == Init /\ [][NextAfterTimeout]_vars

(***************************************************************************)
(* Sequential use of the store, as in the tests of cache.rs: one caller    *)
(* upserts page after page.  hist records each call: its arguments, the   *)
(* id it returned, the query's link rows before and after it, and the      *)
(* lists get_results_for_query may return right before and right after it. *)
(***************************************************************************)
Upsert(engine, query, entries, fetched_at) ==
    LET r == upsert_query_with_results(db, engine, query, entries, fetched_at)
        q == get_query(db, query, select_engine_id(db, engine))
    IN  /\ ncalls < MaxCalls
        /\ \A t \in 1..MaxTasks : ~Active(task[t])
        /\ db' = r.db
        /\ ncalls' = ncalls + 1
        /\ hist' = Append(hist,
                      [engine |-> engine, query |-> query, entries |-> entries,
                       fetched_at |-> fetched_at, id |-> r.id,
                       before |-> IF q = 0 THEN {} ELSE LinksOf(db, q),
                       cached_before |->
                          IF q = 0 THEN {<<>>} ELSE get_results_for_query(db, q),
                       after |-> LinksOf(r.db, r.id),
                       cached |-> get_results_for_query(r.db, r.id)])
        /\ UNCHANGED <<task, call, flat>>

NextStore ==
    \E engine \in EngineNames, query \in QueryTexts, entries \in Pages, fetched_at \in Times :
        Upsert(engine, query, entries, fetched_at)

SpecStore == Init /\ [][NextStore]_vars

(***************************************************************************)
(* get_engine_id called again and again by one sequential caller; hist     *)
(* records the name asked for and the id returned.                         *)
(***************************************************************************)
ResolveEngine(engine) ==
    LET r == get_engine_id(db, engine)
    IN  /\ ncalls < MaxEngineCalls
        /\ \A t \in 1..MaxTasks : ~Active(task[t])
        /\ db' = r.db
        /\ ncalls' = ncalls + 1
        /\ hist' = Append(hist, [engine |-> engine, engine_id |-> r.id])
        /\ UNCHANGED <<task, call, flat>>

NextEngines == \E engine \in EngineNames : ResolveEngine(engine)

SpecEngines == Init /\ [][NextEngines]_vars

(***************************************************************************)
(* merge_results on its own: the call is at line 131 with any flattened    *)
(* list the tasks can have delivered.  Each row names the one engine of    *)
(* its task; titles and descriptions may be empty.                         *)
(***************************************************************************)
\* two urls of which the longer one comes first in lexicographic order
MergeUrls == {<<1, 2>>, <<2>>}

SearchResult ==
    [url : MergeUrls, title : {"", "T", "U"}, description : {"", "D"},
     engines : {<<e>> : e \in EngineNames}, cached : BOOLEAN]

InitMerge ==
    /\ db = create_search_cache
    /\ task = [t \in 1..MaxTasks |-> IdleTask]
    /\ call = [NoCall EXCEPT !.pc = "merge"]
    /\ flat \in SeqsUpTo(SearchResult, MaxFlatLen)
    /\ hist = <<>>
    /\ ncalls = 0

\* line 131: Ok(merge_results(flat))
MergeFlat ==
    /\ call.pc = "merge"
    /\ Return([outcome |-> "Ok", results |-> merge_results(flat)])
    /\ UNCHANGED <<db, task, flat, hist, ncalls>>

NextMerge == MergeFlat

SpecMerge == InitMerge /\ [][NextMerge]_vars

(***************************************************************************)
(* The same sequential caller with longer pages, which may repeat a url    *)
(* several times; titles and descriptions are fixed to keep the pages few. *)
(***************************************************************************)
LongRows == {r \in ResultRow : r.title = "T" /\ r.description = "D"}

LongPages == SeqsUpTo(LongRows, MaxLongPageLen)

NextLongPages ==
    \E engine \in EngineNames, query \in QueryTexts, entries \in LongPages,
       fetched_at \in Times :
        Upsert(engine, query, entries, fetched_at)

SpecLongPages == Init /\ [][NextLongPages]_vars

(***************************************************************************)
(* One direct call of fetch_or_cache_result with any window, before or     *)
(* after upserts by the same sequential caller.                            *)
(***************************************************************************)
StartReconcile(engine, query, start, count) ==
    /\ task[1].pc = "idle"
    /\ ncalls < MaxCalls
    /\ ncalls' = ncalls + 1
    /\ task' = [task EXCEPT ![1] = NewTask(engine, query, start, count)]
    /\ UNCHANGED <<db, call, flat, hist>>

NextReconcile ==
    \/ \E engine \in EngineNames, query \in QueryTexts, entries \in Pages, fetched_at \in Times :
          Upsert(engine, query, entries, fetched_at)
    \/ \E engine \in EngineNames, query \in QueryTexts,
          start \in 0..MaxStart, count \in 0..MaxCount :
          StartReconcile(engine, query, start, count)
    \/ TaskStep(1)

SpecReconcile == Init /\ [][NextReconcile]_vars

(***************************************************************************)
(* Vocabulary of the properties.                                           *)
(***************************************************************************)
Positions(links) == {l.result_index : l \in links}

Contiguous(links) ==
    /\ \A l, m \in links : l # m => l.result_index # m.result_index
    /\ Positions(links) = 0..(Cardinality(links) - 1)

PageUrls(page) == {page[k].url : k \in 1..Len(page)}

NoRepeat(page) == \A j, k \in 1..Len(page) : j # k => page[j].url # page[k].url

(***************************************************************************)
(* Properties of search_engine_results (specification Spec).               *)
(***************************************************************************)
Requested == 1..call.n

FailedItself(t) == task[t].status \in {"engine", "sqlx"}

\* the rows of the tasks that succeeded, in the order join_all yields them
RECURSIVE RowsOfSucceeded(_)
RowsOfSucceeded(order) ==
    IF order = <<>> THEN <<>>
    ELSE (IF task[Head(order)].status = "ok"
          THEN task[Head(order)].search_results ELSE <<>>)
         \o RowsOfSucceeded(Tail(order))

\* C1: when several engines are requested, exactly one task fails by itself
\* (adapter error or store error) and all others succeed, the call returns Ok
\* with the merge of the successful tasks' rows: no error, no panic.
C1_PartialFailureReturnsUnion ==
    ( /\ call.pc = "returned"
      /\ call.n >= 2
      /\ Cardinality({t \in Requested : FailedItself(t)}) = 1
      /\ \A t \in Requested : FailedItself(t) \/ task[t].status = "ok" )
    => /\ call.outcome = "Ok"
       /\ call.results = merge_results(RowsOfSucceeded(call.joined))

\* C2: when every requested task failed (adapter error, store error or its
\* own timeout) and the outer timeout did not fire, the call returns
\* AllEnginesFailed; one requested engine that fails is such a case.
C2_TotalFailureIsAllEnginesFailed ==
    ( /\ call.pc = "returned"
      /\ call.n >= 1
      /\ \A t \in Requested : FailedItself(t) \/ task[t].status = "elapsed" )
    => call.outcome = "AllEnginesFailed"

\* C3: the call returned with a task unfinished (the outer timeout fired
\* before all tasks were done) exactly when it returned Timeouts, and then it
\* returned no rows, whatever the finished tasks had produced.
C3_DeadlineAllOrNothing ==
    call.pc = "returned" =>
        /\ (\E t \in Requested : task[t].status = "aborted")
              <=> call.outcome = "Timeouts"
        /\ call.outcome = "Timeouts" => call.results = <<>>

C3_Witness ==
    /\ call.pc = "returned"
    /\ call.outcome = "Timeouts"
    /\ \E t \in Requested : task[t].status = "ok" /\ task[t].search_results # <<>>
    /\ \E t \in Requested : task[t].status = "aborted"

(***************************************************************************)
(* Properties of one call of fetch_or_cache_result (SpecReconcile).        *)
(***************************************************************************)
Returned(tk) == tk.pc = "done" /\ tk.status \in {"ok", "engine", "sqlx"}

NeededEnd(tk) == tk.start + tk.count

\* C4: a call that got to compare cached_count with start+count and returned
\* has called the adapter once if cached_count < start+count and not at all
\* otherwise; no call calls it twice, and none calls it without that need.
C4_OneLiveFetchIffShort ==
    \A t \in 1..MaxTasks :
        /\ task[t].fetches <= 1
        /\ task[t].fetches = 1 =>
              task[t].decided /\ Len(task[t].cached_rows) < NeededEnd(task[t])
        /\ Returned(task[t]) /\ task[t].decided =>
              task[t].fetches =
                 (IF Len(task[t].cached_rows) < NeededEnd(task[t]) THEN 1 ELSE 0)

C4_Witness ==
    \E t \in 1..MaxTasks :
        /\ task[t].pc = "done" /\ task[t].status = "ok"
        /\ task[t].cached_rows # <<>>
        /\ task[t].count > 0
        /\ task[t].fetches = 0

\* C5: a successful call over the cached list L returns
\* L[min(start,|L|) .. min(|L|,start+count)) in L's order, each row marked
\* cached, then, only if |L| < start+count, the whole fresh page in the
\* adapter's order, each row marked not cached.  The lower slice bound never
\* exceeds the upper one (the slice never panics) and the cached part has at
\* most count rows.
SameRow(r, cr) ==
    r.url = cr.url /\ r.title = cr.title /\ r.description = cr.description

C5_WindowOutput ==
    \A t \in 1..MaxTasks :
        /\ task[t].status # "panic"
        /\ task[t].pc = "done" /\ task[t].status = "ok" =>
              LET L == task[t].cached_rows
                  out == task[t].search_results
                  page == task[t].engine_results
                  lo == IF task[t].start < Len(L) THEN task[t].start ELSE Len(L)
                  hi == IF Len(L) < NeededEnd(task[t]) THEN Len(L)
                        ELSE NeededEnd(task[t])
                  short == Len(L) < NeededEnd(task[t])
              IN  /\ lo <= hi
                  /\ hi - lo <= task[t].count
                  /\ Len(out) = (hi - lo) + (IF short THEN Len(page) ELSE 0)
                  /\ \A k \in 1..(hi - lo) :
                        SameRow(out[k], L[lo + k]) /\ out[k].cached
                  /\ short =>
                        \A k \in 1..Len(page) :
                           SameRow(out[hi - lo + k], page[k])
                              /\ ~out[hi - lo + k].cached

C5_Witness ==
    \E t \in 1..MaxTasks :
        /\ task[t].pc = "done" /\ task[t].status = "ok"
        /\ task[t].start > 0
        /\ Len(task[t].cached_rows) > task[t].start
        /\ task[t].fetches = 1
        /\ Len(task[t].search_results) > task[t].count

\* C6 as claimed: in the list a call returns, a row is marked cached exactly
\* when its url was linked to the call's (engine, query) before the live fetch.
C6_CachedIffLinkedBefore ==
    \A t \in 1..MaxTasks :
        task[t].pc = "done" /\ task[t].status = "ok" =>
            \A k \in 1..Len(task[t].search_results) :
                task[t].search_results[k].cached
                    <=> task[t].search_results[k].url \in task[t].linked_before

\* C6 as amended: a row is marked cached exactly when it comes from the
\* cache-hit slice, and then its url was linked to the (engine, query) before
\* the live fetch; every row of the fresh page is marked not cached, also
\* when its url was linked already.
FreshCount(tk) == IF tk.fetches = 1 THEN Len(tk.engine_results) ELSE 0

C6_CachedIffFromCacheSlice ==
    \A t \in 1..MaxTasks :
        task[t].pc = "done" /\ task[t].status = "ok" =>
            LET out == task[t].search_results
                hits == Len(out) - FreshCount(task[t])
            IN  /\ hits >= 0
                /\ \A k \in 1..Len(out) :
                      /\ out[k].cached <=> k <= hits
                      /\ out[k].cached => out[k].url \in task[t].linked_before

C6_Witness ==
    \E t \in 1..MaxTasks :
        /\ task[t].pc = "done" /\ task[t].status = "ok"
        /\ \E k \in 1..Len(task[t].search_results) :
              /\ ~task[t].search_results[k].cached
              /\ task[t].search_results[k].url \in task[t].linked_before

(***************************************************************************)
(* Properties of upsert_query_with_results and get_results_for_query       *)
(* under one sequential caller (SpecStore).                                *)
(***************************************************************************)
SameArgs(a, b) ==
    /\ a.engine = b.engine /\ a.query = b.query
    /\ a.entries = b.entries /\ a.fetched_at = b.fetched_at

SamePair(a, b) == a.engine = b.engine /\ a.query = b.query

Consecutive == 1..(Len(hist) - 1)

\* C7: a second upsert with the same engine, query text, entries and
\* timestamp returns the same query id and leaves the query's cached list as
\* the first call left it: same rows, same count, no link added.
C7_UpsertIdempotent ==
    \A k \in Consecutive :
        SameArgs(hist[k], hist[k + 1]) =>
            /\ hist[k + 1].id = hist[k].id
            /\ hist[k + 1].cached = hist[k].cached
            /\ Cardinality(hist[k + 1].after) = Cardinality(hist[k].after)

C7_Witness ==
    \E k \in Consecutive :
        /\ SameArgs(hist[k], hist[k + 1])
        /\ Len(hist[k].entries) = 2
        /\ Cardinality(hist[k + 1].after) = 2

\* the list is exactly the urls of page, in page order
ListIs(list, page) ==
    /\ Len(list) = Len(page)
    /\ \A i \in 1..Len(page) : list[i].url = page[i].url

\* the link of the i-th url of page sits at position i - 1
PositionsFollow(d, links, page) ==
    \A i \in 1..Len(page) :
        \E l \in links : d.results[l.result_id].url = page[i].url
                            /\ l.result_index = i - 1

\* C8 as claimed: for a query with no links yet, page A (n entries) and then
\* page B (m entries, no url repeated, none occurring in A) leave
\* get_results_for_query returning n+m rows: A in order, then B in order.
C8_AppendAfterAnyPage ==
    \A k \in Consecutive :
        ( /\ SamePair(hist[k], hist[k + 1])
          /\ hist[k].before = {}
          /\ NoRepeat(hist[k + 1].entries)
          /\ PageUrls(hist[k].entries) \cap PageUrls(hist[k + 1].entries) = {} )
        => \A list \in hist[k + 1].cached :
              ListIs(list, hist[k].entries \o hist[k + 1].entries)

\* C8 as amended: the same, given that A repeats no url either; the links
\* then hold the positions 0 .. n+m-1 in that order.
C8_AppendAfterRepeatFreePage ==
    \A k \in Consecutive :
        ( /\ SamePair(hist[k], hist[k + 1])
          /\ hist[k].before = {}
          /\ NoRepeat(hist[k].entries \o hist[k + 1].entries) )
        => /\ \A list \in hist[k + 1].cached :
                 ListIs(list, hist[k].entries \o hist[k + 1].entries)
           /\ Cardinality(hist[k + 1].after)
                 = Len(hist[k].entries) + Len(hist[k + 1].entries)
           /\ k + 1 = Len(hist) =>
                 PositionsFollow(db, hist[k + 1].after,
                                 hist[k].entries \o hist[k + 1].entries)

C8_Witness ==
    \E k \in Consecutive :
        /\ SamePair(hist[k], hist[k + 1])
        /\ hist[k].before = {}
        /\ NoRepeat(hist[k].entries \o hist[k + 1].entries)
        /\ Len(hist[k].entries) = 2
        /\ Len(hist[k + 1].entries) = 1
        /\ Cardinality(hist[k + 1].after) = 3

\* C9: after any sequence of upserts, the positions of each query's links
\* are exactly 0 .. k-1 for its k links: none skipped, none used twice.
C9_PositionsContiguous ==
    \A q \in 1..Len(db.queries) : Contiguous(LinksOf(db, q))

(***************************************************************************)
(* Concurrent upserts for one (engine, query), in the tasks of one call    *)
(* (specification Spec).                                                   *)
(***************************************************************************)
\* C10: positions of one query's links, seen when the tasks of one call
\* upsert concurrently for the same (engine, query).  The pages are free of
\* repeats and share no url, so one upsert after the other would number the
\* links 0, 1, 2, ...: no position is used twice and none is skipped.
DisjointCleanPages ==
    /\ \A t \in 1..MaxTasks : NoRepeat(task[t].engine_results)
    /\ \A t, u \in 1..MaxTasks :
          t # u => PageUrls(task[t].engine_results)
                      \cap PageUrls(task[u].engine_results) = {}

C10_ConcurrentAppendsSerialized ==
    DisjointCleanPages =>
        \A q \in 1..Len(db.queries) : Contiguous(LinksOf(db, q))

(***************************************************************************)
(* The queries table and the visibility of a page under concurrent tasks   *)
(* (specification Spec) and under store failures (SpecReconcile).          *)
(***************************************************************************)
\* C11: the store never holds two Query rows for one (text, engine) pair,
\* also when two tasks reconcile the same pair, not cached yet, at once.
C11_UniqueQueryRow ==
    \A i, j \in 1..Len(db.queries) :
        ( /\ db.queries[i].query = db.queries[j].query
          /\ db.queries[i].engine_id = db.queries[j].engine_id ) => i = j

\* the task is inside the for loop of upsert_query_with_results
MidUpsert(tk) ==
    tk.phase = "upsert" /\ tk.pc \in {"insert_result", "insert_query_result"}

\* the entries of its page the task has yet to link and that are not linked
\* to its query: the links the call is still going to create
StillToLink(d, tk) ==
    {k \in tk.i..Len(tk.engine_results) :
        ~\E l \in LinksOf(d, tk.query_id) :
              d.results[l.result_id].url = tk.engine_results[k].url}

\* C12: whenever another task is at its SELECT of get_results_for_query for
\* the query a task is upserting into, the store shows none of the links
\* that upsert creates or all of them, never some of them only.
C12_PageVisibleAtOnce ==
    \A t, u \in 1..MaxTasks :
        ( /\ t # u
          /\ MidUpsert(task[t])
          /\ task[u].pc = "get_results"
          /\ task[u].query_id = task[t].query_id )
        => task[t].added = {} \/ StillToLink(db, task[t]) = {}

\* C13: a call that ended with a store error has left none of the link rows
\* its own inserts created in the store.
C13_FailedUpsertLeavesNoLinks ==
    \A t \in 1..MaxTasks :
        task[t].pc = "done" /\ task[t].status = "sqlx" =>
            task[t].added \cap db.query_results = {}

(***************************************************************************)
(* The results table under one sequential caller (SpecStore).              *)
(***************************************************************************)
RowsWithUrl(d, url) == {i \in 1..Len(d.results) : d.results[i].url = url}

\* the two calls are for distinct queries and their pages share a url
SharedUrls(a, b) == PageUrls(a.entries) \cap PageUrls(b.entries)

\* C14: no two rows of results share a url; and when two upserts for
\* distinct queries carry the same url, results holds exactly one row for
\* it and each of the two queries has its own link to that row.
C14_GlobalDedup ==
    /\ \A i, j \in 1..Len(db.results) :
          db.results[i].url = db.results[j].url => i = j
    /\ \A k \in Consecutive :
          ~SamePair(hist[k], hist[k + 1]) =>
             \A url \in SharedUrls(hist[k], hist[k + 1]) :
                /\ Cardinality(RowsWithUrl(db, url)) = 1
                /\ hist[k].id # hist[k + 1].id
                /\ \A r \in RowsWithUrl(db, url) :
                      /\ Cardinality({l \in hist[k].after : l.result_id = r}) = 1
                      /\ Cardinality({l \in hist[k + 1].after : l.result_id = r}) = 1
                      /\ hist[k].after \cup hist[k + 1].after \subseteq db.query_results

C14_Witness ==
    \E k \in Consecutive :
        /\ ~SamePair(hist[k], hist[k + 1])
        /\ SharedUrls(hist[k], hist[k + 1]) # {}
        /\ \E i \in 1..Len(hist[k].entries), j \in 1..Len(hist[k + 1].entries) :
              /\ hist[k].entries[i].url = hist[k + 1].entries[j].url
              /\ hist[k].entries[i].title # hist[k + 1].entries[j].title

\* the pair (query, entry) of each link row
LinkPairs(d) ==
    {[query_id |-> l.query_id, result_id |-> l.result_id] : l \in d.query_results}

\* C15: no step changes a row of results once it exists (url, title and
\* description stay as first inserted), and an upsert that carries the url of
\* an existing row links its query to that row: the existing id is the one
\* insert_result returned.
C15_FirstInsertWins ==
    [][ /\ Len(db'.results) >= Len(db.results)
        /\ \A i \in 1..Len(db.results) : db'.results[i] = db.results[i]
        /\ hist' # hist =>
              LET h == hist'[Len(hist')]
              IN  \A k \in 1..Len(h.entries) :
                     \A i \in RowsWithUrl(db, h.entries[k].url) :
                        [query_id |-> h.id, result_id |-> i] \in LinkPairs(db')
      ]_vars

\* a later upsert carried a stored url with another title and another
\* description, and the stored row is as the first call gave it
C15_Witness ==
    \E k \in Consecutive :
        \E e \in {hist[k].entries[i] : i \in 1..Len(hist[k].entries)} :
            \E f \in {hist[k + 1].entries[j] : j \in 1..Len(hist[k + 1].entries)} :
                /\ e = hist[k].entries[1]
                /\ Len(hist) = 2
                /\ e.url = f.url /\ e.title # f.title /\ e.description # f.description
                /\ \E i \in 1..Len(db.results) : db.results[i] = e

(***************************************************************************)
(* Order of the cached list across upserts (SpecLongPages).                *)
(***************************************************************************)
IsPrefix(b, a) == Len(b) <= Len(a) /\ \A i \in 1..Len(b) : a[i] = b[i]

\* C16: the list get_results_for_query returns before an upsert is a prefix
\* of the list it returns after it.  Links with equal positions come in an
\* order SQL leaves open; the statement is read in the way most favourable
\* to the code: for every list possible before, some list possible after
\* extends it.
C16_CachedListOnlyGrowsAtEnd ==
    \A k \in 1..Len(hist) :
        \A b \in hist[k].cached_before :
            \E a \in hist[k].cached : IsPrefix(b, a)

(***************************************************************************)
(* Properties of merge_results (SpecMerge): call.results is the merge of   *)
(* flat once the call has returned Ok.                                     *)
(***************************************************************************)
Merged == call.pc = "returned" /\ call.outcome = "Ok"

FlatUrls == {flat[k].url : k \in 1..Len(flat)}

\* lexicographic order of strings, character by character
RECURSIVE LexLess(_, _)
LexLess(a, b) ==
    IF b = <<>> THEN FALSE
    ELSE IF a = <<>> THEN TRUE
    ELSE \/ Head(a) < Head(b)
         \/ Head(a) = Head(b) /\ LexLess(Tail(a), Tail(b))

\* C17: the merged list has exactly one record for each distinct url of the
\* flattened list (urls compared as they are) and its urls ascend strictly
\* in lexicographic order; the sequence of urls so depends on the set of
\* input urls only, not on the order of arrival.
C17_MergeSortedOnePerUrl ==
    Merged =>
        /\ {call.results[i].url : i \in 1..Len(call.results)} = FlatUrls
        /\ Len(call.results) = Cardinality(FlatUrls)
        /\ \A i, j \in 1..Len(call.results) :
              i < j => LexLess(call.results[i].url, call.results[j].url)

C17_Witness ==
    /\ Merged
    /\ Len(flat) = 3
    /\ flat[1].url = <<2>> /\ flat[2].url = <<1, 2>> /\ flat[3].url = <<2>>
    /\ Len(call.results) = 2
    /\ call.results[1].url = <<1, 2>>

\* the engines of the rows of flat that carry the url
Contributors(url) ==
    {flat[k].engines[1] : k \in {n \in 1..Len(flat) : flat[n].url = url}}

\* C18: the engine list of each merged record names exactly the engines that
\* contributed a row with its url, each of them once, also when one engine
\* contributed the url twice (as a cache hit and in its fresh page).
C18_ProvenanceWithoutRepeats ==
    Merged =>
        \A i \in 1..Len(call.results) :
            LET names == call.results[i].engines
            IN  /\ {names[k] : k \in 1..Len(names)} = Contributors(call.results[i].url)
                /\ \A j, k \in 1..Len(names) : j # k => names[j] # names[k]

\* the value of the first row of flat with this url whose field is not empty,
\* empty when there is none
Sightings(url) == {k \in 1..Len(flat) : flat[k].url = url}

FirstNonEmptyTitle(url) ==
    LET with == {k \in Sightings(url) : flat[k].title # ""}
    IN  IF with = {} THEN ""
        ELSE flat[CHOOSE k \in with : \A o \in with : k <= o].title

FirstNonEmptyDescription(url) ==
    LET with == {k \in Sightings(url) : flat[k].description # ""}
    IN  IF with = {} THEN ""
        ELSE flat[CHOOSE k \in with : \A o \in with : k <= o].description

\* C19: each merged record carries, for title and for description, the value
\* of the earliest sighting of its url in which that field is not empty: the
\* first sighting's value when it has one, else the earliest later one; a
\* value once taken is not overwritten by later sightings.
C19_BackfillFromEarliestNonEmpty ==
    Merged =>
        \A i \in 1..Len(call.results) :
            /\ call.results[i].title = FirstNonEmptyTitle(call.results[i].url)
            /\ call.results[i].description
                  = FirstNonEmptyDescription(call.results[i].url)

\* three sightings of one url: no title, then "T", then "U"; a description
\* in the first and an empty one later
C19_Witness ==
    /\ Merged
    /\ Len(flat) = 3
    /\ \A k \in 1..3 : flat[k].url = <<2>>
    /\ flat[1].title = "" /\ flat[2].title = "T" /\ flat[3].title = "U"
    /\ flat[1].description = "D" /\ flat[2].description = ""
    /\ Len(call.results) = 1
    /\ call.results[1].title = "T"

(***************************************************************************)
(* Properties of get_engine_id under one sequential caller (SpecEngines).  *)
(***************************************************************************)
EngineRows(name) == {i \in 1..Len(db.engines) : db.engines[i] = name}

\* C20: all calls of get_engine_id with one name return the same id, that id
\* is the id of a row with this name, and engines holds exactly one row with
\* the name however often it was asked for.
C20_EngineIdIdempotent ==
    /\ \A j, k \in 1..Len(hist) :
          hist[j].engine = hist[k].engine => hist[j].engine_id = hist[k].engine_id
    /\ \A k \in 1..Len(hist) :
          EngineRows(hist[k].engine) = {hist[k].engine_id}

C20_Witness ==
    /\ Len(hist) >= 4
    /\ Cardinality({k \in 1..Len(hist) : hist[k].engine = "DuckDuckGo"}) >= 3
    /\ hist[1].engine = "Brave"
    /\ hist[Len(hist)].engine_id = 2

(***************************************************************************)
(* Timeouts of single tasks and of the whole call (specification Spec).    *)
(***************************************************************************)
\* C21: when some task ran into its own timeout, every other task succeeded
\* and the outer timeout did not fire, the call returns Ok with the merge of
\* the successful tasks' rows: the timed-out task is left out, the call does
\* not fail with Timeouts.
C21_TaskTimeoutIsolated ==
    ( /\ call.pc = "returned"
      /\ \E t \in Requested : task[t].status = "elapsed"
      /\ \E t \in Requested : task[t].status = "ok"
      /\ \A t \in Requested : task[t].status \in {"elapsed", "ok"} )
    => /\ call.outcome = "Ok"
       /\ call.results = merge_results(RowsOfSucceeded(call.joined))

C21_Witness ==
    /\ call.pc = "returned"
    /\ call.outcome = "Ok"
    /\ call.results # <<>>
    /\ \E t \in Requested : task[t].status = "elapsed"
    /\ \E t \in Requested : task[t].status = "ok" /\ task[t].search_results # <<>>

\* the urls the timed-out call left linked to some query row of the pair
LeftLinked(engine, query) == LinkedUrls(hist[1], engine, query)

\* C22: what the tasks of a call wrote before the outer timeout fired stays
\* in the store when the call returns Timeouts (the step that returns
\* Timeouts changes no table and no later step removes a row), and a later
\* reconciliation for the same (engine, query) returns each url the call
\* left linked to the pair as a cache hit.
C22_WritesSurviveTimeout ==
    /\ hist # <<>> =>
          /\ IsPrefix(hist[1].engines, db.engines)
          /\ IsPrefix(hist[1].queries, db.queries)
          /\ IsPrefix(hist[1].results, db.results)
          /\ hist[1].query_results \subseteq db.query_results
    /\ ( /\ hist # <<>>
         /\ task[1].pc = "done"
         /\ task[1].status = "ok" )
       => \A url \in LeftLinked(task[1].engine, task[1].query) :
             \E k \in 1..Len(task[1].search_results) :
                /\ task[1].search_results[k].url = url
                /\ task[1].search_results[k].cached

(***************************************************************************)
(* The image path against the result path (SpecImages).                    *)
(***************************************************************************)
\* a row, a page, a result and a list of results without the description
ForgetRow(r) == [url |-> r.url, title |-> r.title]

ForgetPage(page) == [k \in 1..Len(page) |-> ForgetRow(page[k])]

ForgetResult(sr) ==
    [url |-> sr.url, title |-> sr.title, engines |-> sr.engines, cached |-> sr.cached]

ForgetResults(rows) == [k \in 1..Len(rows) |-> ForgetResult(rows[k])]

\* what the image path does and returns for the operation h on the store d
ImageCall(d, h) ==
    IF h.op = "upsert"
    THEN LET r == upsert_query_with_images(d, h.engine, h.query,
                                           ForgetPage(h.entries), h.fetched_at)
         IN  [db |-> r.db, id |-> r.id, status |-> "ok", rows |-> <<>>]
    ELSE IF h.op = "reconcile"
    THEN LET r == fetch_or_cache_image(d, h.engine, h.query, h.start, h.count,
                                       ForgetPage(h.pick),
                                       [ok |-> h.answer.ok,
                                        page |-> ForgetPage(h.answer.page)],
                                       h.fetched_at)
         IN  [db |-> r.db, id |-> 0, status |-> r.status, rows |-> r.rows]
    ELSE [db |-> d, id |-> 0, status |-> "elapsed", rows |-> <<>>]

\* the store of the image path after the first k operations of hist
RECURSIVE ImageStore(_)
ImageStore(k) ==
    IF k = 0 THEN create_search_cache
    ELSE ImageCall(ImageStore(k - 1), hist[k]).db

\* the lists get_images_for_query can return to a reconciliation of the pair
ImageCachedLists(d, engine, query) ==
    LET q == get_query(d, query, select_engine_id(d, engine))
    IN  IF q = 0 THEN {<<>>} ELSE get_images_for_query(d, q)

\* the image tables of i hold what the result tables of d hold: same ids,
\* same rows without description, same links at the same positions
SameStore(d, i) ==
    /\ i.engines = d.engines
    /\ i.queries = d.queries
    /\ i.images = ForgetPage(d.results)
    /\ i.query_images =
          {[query_id |-> l.query_id, image_id |-> l.result_id,
            image_index |-> l.result_index] : l \in d.query_results}

IsTask(h) == h.op # "upsert"

\* the reconciliations of hist as the task results of one search, for the
\* result path and for the image path
ResultTasks ==
    LET tasks == SelectSeq(hist, IsTask)
    IN  [k \in 1..Len(tasks) |->
            [status |-> tasks[k].status, search_results |-> tasks[k].rows]]

ImageTasks ==
    LET outs == [k \in 1..Len(hist) |->
                    [op |-> hist[k].op,
                     out |-> ImageCall(ImageStore(k - 1), hist[k])]]
        tasks == SelectSeq(outs, IsTask)
    IN  [k \in 1..Len(tasks) |->
            [status |-> tasks[k].out.status, search_images |-> tasks[k].out.rows]]

Tables(d) == <<d.queries, d.results, d.query_results>>

\* C24: a call whose adapter fails returns the adapter's error straight from
\* the adapter call, before any upsert: up to and including that step no
\* step of the call changes a query row, an entry row or a link row, so the
\* cached list of its pair is after the call what it was before.
C24_EngineFailureWritesNothing ==
    [][ \A t \in 1..MaxTasks :
          /\ (task[t].phase = "reconcile" /\ task'[t] # task[t])
                => Tables(db') = Tables(db)
          /\ (task'[t].status = "engine" /\ task[t].status # "engine")
                => /\ task[t].phase = "reconcile"
                   /\ task[t].pc = "search_results"
                   /\ task[t].added = {}
                   /\ task'[t].pc = "done"
                   /\ task'[t].search_results = <<>>
      ]_vars

\* the adapter failed in a call that had read a non-empty cached list
C24_Witness ==
    \E t \in 1..MaxTasks :
        /\ task[t].pc = "done" /\ task[t].status = "engine"
        /\ task[t].cached_rows # <<>>
        /\ LinkedUrls(db, task[t].engine, task[t].query) = task[t].linked_before

(***************************************************************************)
(* get_engine_id under two concurrent tasks (specification Spec).          *)
(***************************************************************************)
\* C25: when tasks resolve the id of a name that is not stored yet at the
\* same time, the INSERT a task is about to run after its SELECT found no
\* row never hits UNIQUE(name) (so the task does not fail with a store error
\* there), the tasks that resolved one name hold the same id, and engines
\* holds at most one row with the name.
C25_ConcurrentFirstUseSafe ==
    /\ \A t \in 1..MaxTasks :
          task[t].pc = "insert_engine" => insert_engine_ok(db, task[t].engine)
    /\ \A t, u \in 1..MaxTasks :
          ( /\ task[t].engine_id # 0 /\ task[u].engine_id # 0
            /\ task[t].engine = task[u].engine )
             => task[t].engine_id = task[u].engine_id
    /\ \A t \in 1..MaxTasks : Cardinality(EngineRows(task[t].engine)) <= 1

\* the pair of the task has at least start+count linked urls in d
Covered(d, tk) ==
    Cardinality(LinkedUrls(d, tk.engine, tk.query)) >= NeededEnd(tk)

\* the rows start+1 .. start+count of L, each marked cached
CachedSlice(L, tk) ==
    [k \in 1..tk.count |-> CachedResult(L[tk.start + k], tk.engine)]

\* C26: the set of urls linked to a pair never shrinks; a call that starts on
\* a pair with at least start+count linked urls still finds them when it
\* reads the cache; and such a call never calls the adapter, never enters an
\* upsert, and, when it returns Ok, returns rows start+1..start+count of the
\* cached list, each marked cached.
C26_CoveredWindowServedFromCache ==
    [][ /\ \A engine \in EngineNames, query \in QueryTexts :
              LinkedUrls(db, engine, query) \subseteq LinkedUrls(db', engine, query)
        /\ \A t \in 1..MaxTasks :
              ( /\ Active(task[t]) /\ ~task[t].decided /\ task'[t].decided
                /\ Covered(db, task[t]) )
                 => Cardinality(task'[t].linked_before) >= NeededEnd(task[t])
        /\ \A t \in 1..MaxTasks :
              ( /\ task'[t].decided
                /\ Cardinality(task'[t].linked_before) >= NeededEnd(task'[t]) )
                 => /\ task'[t].fetches = 0
                    /\ task'[t].pc = "done"
                    /\ task'[t].added = {}
                    /\ task'[t].status = "ok"
                    /\ Len(task'[t].cached_rows) >= NeededEnd(task'[t])
                    /\ task'[t].search_results =
                          CachedSlice(task'[t].cached_rows, task'[t])
                    /\ \A k \in 1..Len(task'[t].cached_rows) :
                          task'[t].cached_rows[k].url \in task'[t].linked_before
      ]_vars

\* a call with a window that starts after the first row and is not empty was
\* served from a covering cache
C26_Witness ==
    \E t \in 1..MaxTasks :
        /\ task[t].pc = "done" /\ task[t].status = "ok" /\ task[t].decided
        /\ task[t].start > 0 /\ task[t].count > 0
        /\ Cardinality(task[t].linked_before) >= NeededEnd(task[t])
        /\ task[t].fetches = 0

(***************************************************************************)
(* Repeated reconciliations of one pair against an adapter that always     *)
(* answers with the same page (SpecImages: whole calls, with their         *)
(* history).                                                               *)
(***************************************************************************)
\* the urls of a page in the page's order, each at its first occurrence
RECURSIVE DistinctUrls(_, _)
DistinctUrls(page, i) ==
    IF i > Len(page) THEN <<>>
    ELSE IF \E j \in 1..(i - 1) : page[j].url = page[i].url
         THEN DistinctUrls(page, i + 1)
         ELSE <<page[i].url>> \o DistinctUrls(page, i + 1)

UrlsOf(rows) == [k \in 1..Len(rows) |-> rows[k].url]

PairOps(engine, query) ==
    {k \in 1..Len(hist) : hist[k].engine = engine /\ hist[k].query = query}

\* all that ever touched the pair are reconciliations, and the adapter would
\* have answered each of them with page P
OnlySamePage(engine, query, P) ==
    /\ PairOps(engine, query) # {}
    /\ \A k \in PairOps(engine, query) :
          /\ hist[k].op = "reconcile"
          /\ hist[k].answer = [ok |-> TRUE, page |-> P]

\* the reconciliation called the adapter: its cached list was short
Fetched(o) == o.op = "reconcile" /\ Len(o.pick) < o.start + o.count

CachedListIs(engine, query, P) ==
    \A L \in CachedLists(db, engine, query) : UrlsOf(L) = DistinctUrls(P, 1)

\* C27 as claimed: with an adapter that answers every call with the same
\* page P, from the first successful reconciliation of a pair on, the cached
\* list of the pair is P's distinct urls in P's order, whatever further
\* reconciliations of the pair follow.
C27_SamePageCacheIsThePage ==
    \A engine \in EngineNames, query \in QueryTexts, P \in AdapterPages :
        ( /\ OnlySamePage(engine, query, P)
          /\ \E k \in PairOps(engine, query) : hist[k].status = "ok" )
           => CachedListIs(engine, query, P)

\* C27 as amended: the same from the first successful reconciliation that
\* called the adapter on; a successful reconciliation with an empty window
\* (start + count = 0) calls no adapter and leaves the cached list empty.
C27_SamePageCacheIsThePageOnceFetched ==
    \A engine \in EngineNames, query \in QueryTexts, P \in AdapterPages :
        ( /\ OnlySamePage(engine, query, P)
          /\ \E k \in PairOps(engine, query) :
                hist[k].status = "ok" /\ Fetched(hist[k]) )
           => CachedListIs(engine, query, P)

\* two successful reconciliations of one pair fetched the same page, which
\* has a repeated url or two urls
C27_Witness ==
    \E engine \in EngineNames, query \in QueryTexts, P \in AdapterPages :
        /\ Len(P) = 2
        /\ OnlySamePage(engine, query, P)
        /\ Len(hist) = 2
        /\ \A k \in 1..2 : hist[k].status = "ok" /\ Fetched(hist[k])
        /\ CachedListIs(engine, query, P)

(***************************************************************************)
(* What an upsert leaves alone (SpecStore).                                *)
(***************************************************************************)
\* C28: an upsert changes the links and the cached list (rows, with url,
\* title and description, in position order) of no query row but its own,
\* also when its page has urls that other query rows link.
C28_UpsertLeavesOtherQueries ==
    [][ hist' # hist =>
          \A q \in 1..Len(db.queries) :
              q # hist'[Len(hist')].id =>
                 /\ LinksOf(db', q) = LinksOf(db, q)
                 /\ get_results_for_query(db', q) = get_results_for_query(db, q)
      ]_vars

\* the second upsert went to another query row than the first, with a url
\* the first had linked, under another title
C28_Witness ==
    /\ Len(hist) = 2
    /\ hist[1].id # hist[2].id
    /\ hist[1].after # {}
    /\ \E j \in 1..Len(hist[1].entries), k \in 1..Len(hist[2].entries) :
          /\ hist[1].entries[j].url = hist[2].entries[k].url
          /\ hist[1].entries[j].title # hist[2].entries[k].title
    /\ LinksOf(db, hist[1].id) = hist[1].after
    /\ hist[2].after # {}

(***************************************************************************)
(* Termination of search_engine_results (SpecFair).                        *)
(***************************************************************************)
\* C29: every call that has spawned its tasks eventually returns, and what
\* it returns is Ok with a merged list or one of the errors Timeouts and
\* AllEnginesFailed, whatever the tasks do or fail to do.
C29_SearchReturnsListOrError ==
    (call.pc = "joining") ~>
        (call.pc = "returned" /\ call.outcome \in {"Ok", "Timeouts", "AllEnginesFailed"})

C29_SearchEnds == (call.pc = "joining") ~> (call.pc = "returned")

(***************************************************************************)
(* A call with an empty list of engines (specification Spec).              *)
(***************************************************************************)
\* C30: a call with no engine spawns no task and touches no table; join_all
\* is complete at once, so the outer timeout cannot fire, and the call
\* returns AllEnginesFailed, never Ok and never Timeouts.
C30_NoEnginesAllEnginesFailed ==
    (call.pc # "idle" /\ call.n = 0) =>
        /\ \A t \in 1..MaxTasks : task[t] = IdleTask
        /\ db = create_search_cache
        /\ call.joined = <<>>
        /\ call.pc = "joining" => (AllFinished /\ ~ENABLED Deadline /\ ENABLED Join)
        /\ call.pc = "returned" =>
              /\ call.outcome = "AllEnginesFailed"
              /\ call.results = <<>>
              /\ flat = <<>>

C30_Witness == call.pc = "returned" /\ call.n = 0

====
